---------------------------- MODULE Spec2Model ----------------------------
(***************************************************************************)
(* Model of teleframe's addon registry (src/js/addonInterface.js):         *)
(* the AddonInterface singleton with its load pass and event dispatch,     *)
(* the AddonBase contract (registerListener, sendEvent) and the            *)
(* addonControl command surface.                                           *)
(*                                                                         *)
(* Conventions.  Addon names are sequences of characters, each a string,   *)
(* so that the sanitising regular expression acts on characters.  Values   *)
(* thrown by addon code are Error objects, either a TypeError or another   *)
(* Error.  One action is one whole call of a handler of the program; the   *)
(* variable out holds what that call produced (log lines, emitter sends,   *)
(* callbacks invoked, the exception that left it).                         *)
(***************************************************************************)
EXTENDS Naturals, Sequences, FiniteSets

(***************************************************************************)
(* Bounds of the model.                                                    *)
(***************************************************************************)
\* Largest number of keys of config.addonInterface.addons.
MaxAddons == 2

\* Largest number of registerListener calls made after the load pass.
MaxRuntimeRegs == 1

(***************************************************************************)
(* Event vocabularies.                                                     *)
(***************************************************************************)
validInputEvents ==
  << "next", "previous", "pause", "play", "playPause", "newest", "delete",
     "star", "mute", "reboot", "shutdown", "record", "askConfirm",
     "askCancel", "messageBox", "imagesUpdated", "reloadRenderer" >>

validListenEvents ==
  << "renderer-ready", "images-loaded", "teleFrame-ready", "starImage",
     "unstarImage", "deleteImage", "imageDeleted", "removeImageUnseen",
     "newImage", "paused", "muted", "recordStarted", "recordStopped",
     "recordError", "changingActiveImage", "changedActiveImage" >>

\* Array.prototype.indexOf(x) > -1
IndexOfHit(seq, x) == \E i \in 1..Len(seq) : seq[i] = x

Range(seq) == { seq[i] : i \in 1..Len(seq) }

(***************************************************************************)
(* Addon names and their sanitisation.                                     *)
(***************************************************************************)
\* The characters the class \s of the regular expression matches: space,
\* tab, line feed, carriage return, form feed, vertical tab and the Unicode
\* spaces and line separators.  A character without an escape of its own is
\* written by its code point.
Whitespace ==
  { " ", "\t", "\n", "\r", "\f", "U+000B", "U+00A0", "U+1680",
    "U+2000", "U+2001", "U+2002", "U+2003", "U+2004", "U+2005", "U+2006",
    "U+2007", "U+2008", "U+2009", "U+200A", "U+2028", "U+2029", "U+202F",
    "U+205F", "U+3000", "U+FEFF" }

\* addonName.replace(/\.\/\s/g, ''): every non-overlapping occurrence, found
\* left to right, of the three characters '.', '/', whitespace is removed.
RECURSIVE removeInvalidAddonNameChars(_)
removeInvalidAddonNameChars(addonName) ==
  IF addonName = << >> THEN << >>
  ELSE IF /\ Len(addonName) >= 3
          /\ addonName[1] = "."
          /\ addonName[2] = "/"
          /\ addonName[3] \in Whitespace
       THEN removeInvalidAddonNameChars(SubSeq(addonName, 4, Len(addonName)))
       ELSE << addonName[1] >> \o removeInvalidAddonNameChars(Tail(addonName))

\* The name the load pass refuses to load: 'addonInterface'.
ReservedName ==
  << "a", "d", "d", "o", "n", "I", "n", "t", "e", "r", "f", "a", "c", "e" >>

\* this.constructor.name of the registry, the prefix of its log lines.
RegistryLoggerName ==
  << "A", "d", "d", "o", "n", "I", "n", "t", "e", "r", "f", "a", "c", "e" >>

(***************************************************************************)
(* The configuration mapping config.addonInterface.addons: a sequence of   *)
(* [key, val] with distinct keys, in Object.keys order.  A value is an     *)
(* object with enabled true, false or absent, a string, or null.           *)
(***************************************************************************)
ObjVal(en) == [kind |-> "object", enabled |-> en]
StrVal     == [kind |-> "string", enabled |-> "absent"]
NullVal    == [kind |-> "null", enabled |-> "absent"]
Undefined  == [kind |-> "undefined", enabled |-> "absent"]

\* config.addonInterface.addons[addonName]
Lookup(c, addonName) ==
  IF \E i \in 1..Len(c) : c[i].key = addonName
  THEN c[CHOOSE i \in 1..Len(c) : c[i].key = addonName].val
  ELSE Undefined

(***************************************************************************)
(* What addon code does.  The body of a constructor or of an exported      *)
(* function is a sequence of steps on its argument: registerListener,      *)
(* sendEvent, a side effect of its own, or a throw.  A callback returns    *)
(* ("ok", or "late" for one registered after the load pass) or throws      *)
(* ("throw").                                                              *)
(***************************************************************************)
Reg(evs, cbs) == [op |-> "reg", evs |-> evs, cbs |-> cbs, ev |-> "", err |-> ""]
Send(ev)      == [op |-> "send", evs |-> << >>, cbs |-> << >>, ev |-> ev, err |-> ""]
Effect        == [op |-> "effect", evs |-> << >>, cbs |-> << >>, ev |-> "", err |-> ""]
Throw(err)    == [op |-> "throw", evs |-> << >>, cbs |-> << >>, ev |-> "", err |-> err]

\* A unit a module exports: kind is "none" (no such property), "object",
\* "class" (extends AddonBase), "plainclass", "function" or "arrow".
Unit(kind, fname, body) == [kind |-> kind, fname |-> fname, body |-> body]
NoUnit == Unit("none", << >>, << >>)

\* The directory addons/: what require() of addons/<name> yields.
AddonModule(addonName) ==
  CASE addonName = << "a" >> ->
         [found |-> TRUE, addon |-> NoUnit,
          top |-> Unit("class", << "A" >>,
                       << Reg(<< "newImage" >>, << "ok", "throw", "ok" >>),
                          Send("next") >>)]
    [] addonName = << "b" >> ->
         [found |-> TRUE, addon |-> NoUnit,
          top |-> Unit("function", << "B" >>,
                       << Effect,
                          Reg(<< "newImage", "explode" >>, << "ok" >>),
                          Send("explode"),
                          Send("play") >>)]
    [] addonName = << "c" >> ->
         [found |-> TRUE, addon |-> NoUnit,
          top |-> Unit("arrow", << >>,
                       << Reg(<< "paused" >>, << "throw" >>),
                          Reg(<< "newImage" >>, << "ok", "ok" >>) >>)]
    [] addonName = << "d" >> ->
         [found |-> TRUE, addon |-> NoUnit,
          top |-> Unit("class", << "D" >>,
                       << Reg(<< "muted" >>, << "ok" >>), Throw("Error") >>)]
    [] addonName = << "e" >> ->
         [found |-> TRUE, addon |-> NoUnit,
          top |-> Unit("class", << "E" >>,
                       << Reg(<< "muted" >>, << "ok" >>), Throw("TypeError") >>)]
    [] addonName = << "g" >> ->
         [found |-> TRUE, addon |-> NoUnit, top |-> Unit("object", << >>, << >>)]
    [] addonName = << "h" >> ->
         [found |-> TRUE, addon |-> NoUnit,
          top |-> Unit("plainclass", << "H" >>, << Effect >>)]
    [] addonName = << "i" >> ->
         [found |-> TRUE, addon |-> NoUnit,
          top |-> Unit("function", << "I" >>, << Effect >>)]
    [] addonName = << "j" >> ->
         [found |-> TRUE, addon |-> NoUnit,
          top |-> Unit("function", << "J" >>,
                       << Reg(<< "muted" >>, << "ok" >>), Throw("Error") >>)]
    [] addonName = << "k" >> ->
         [found |-> TRUE, addon |-> NoUnit,
          top |-> Unit("function", << "K" >>,
                       << Effect, Throw("Error"),
                          Reg(<< "muted" >>, << "ok" >>) >>)]
    [] addonName = << "w" >> ->
         [found |-> TRUE,
          addon |-> Unit("class", << "W" >>,
                         << Reg(<< "newImage", "paused" >>, << "ok" >>) >>),
          top |-> Unit("object", << >>, << >>)]
    [] addonName = ReservedName ->
         [found |-> TRUE, addon |-> NoUnit,
          top |-> Unit("class", << "R" >>,
                       << Reg(<< "newImage" >>, << "ok" >>) >>)]
    [] OTHER -> [found |-> FALSE, addon |-> NoUnit, top |-> NoUnit]

\* The entries a configuration is drawn from.
ConfigEntries ==
  { [key |-> << "a" >>, val |-> ObjVal("absent")],
    [key |-> << "a" >>, val |-> ObjVal("false")],
    [key |-> << "b" >>, val |-> ObjVal("true")],
    [key |-> << "c" >>, val |-> ObjVal("absent")],
    [key |-> << "d" >>, val |-> ObjVal("true")],
    [key |-> << "e" >>, val |-> ObjVal("true")],
    [key |-> << "g" >>, val |-> ObjVal("true")],
    [key |-> << "h" >>, val |-> ObjVal("true")],
    [key |-> << "i" >>, val |-> ObjVal("true")],
    [key |-> << "j" >>, val |-> ObjVal("true")],
    [key |-> << "k" >>, val |-> ObjVal("true")],
    [key |-> << "w" >>, val |-> ObjVal("absent")],
    [key |-> << "s" >>, val |-> StrVal],
    [key |-> << "n" >>, val |-> NullVal],
    [key |-> << ".", "/", " ", "a" >>, val |-> ObjVal("true")],
    [key |-> << ".", ".", "/", "a" >>, val |-> ObjVal("true")],
    [key |-> ReservedName, val |-> ObjVal("true")],
    [key |-> ReservedName, val |-> ObjVal("false")] }

\* The configurations: at most MaxAddons entries with distinct keys.
Configs ==
  UNION { { c \in [1..n -> ConfigEntries] :
              \A i, j \in 1..n : i # j => c[i].key # c[j].key } : n \in 0..MaxAddons }

(***************************************************************************)
(* State.                                                                  *)
(***************************************************************************)
VARIABLES
  cfg,               \* config.addonInterface.addons
  logTypes,          \* config.addonInterface.logging
  emitterOk,         \* FALSE: emitter.send throws
  addonInterfaceObj, \* the module-level reference: "null" or "set"
  instances,         \* AddonInterface objects whose construction began
  hostHas,           \* the host holds the registry a construction returned
  addons,            \* this.addons
  listeners,         \* this.listeners
  installed,         \* event names of the handlers put on ipcMain, in order
  out                \* what the last call produced

regVars ==
  << cfg, logTypes, emitterOk, addonInterfaceObj, instances, hostHas,
     addons, listeners, installed, out >>

\* The variables of the command surface (addonControl).
VARIABLES
  ctlConfig,   \* config.addonInterface.addons in memory: a sequence of [key, val]
  persisted,   \* the configuration last written by config.writeConfig()
  folders,     \* the names with a folder under addons/
  pathBound,   \* FALSE: the free identifier path is unbound (a script file);
               \* TRUE: the process binds the builtin modules as globals
  writeOk,     \* FALSE: config.writeConfig() throws
  ctlAlive,    \* FALSE once process.exit has been called
  ctlHist      \* the addonControl calls made so far, with what each did

ctlVars == << ctlConfig, persisted, folders, pathBound, writeOk, ctlAlive, ctlHist >>

(***************************************************************************)
(* Logging.  A line is a call of a scoped logger made by getClassLogger;   *)
(* the TeleFrame logger receives it when its type is enabled.              *)
(***************************************************************************)
LogLine(type, who, tag, addonName, ev) ==
  [type |-> type, who |-> who, tag |-> tag, addon |-> addonName, ev |-> ev]

\* getClassLogger: loggerObj[type] forwards when enabledTypes has the type.
getClassLogger(lines, enabledTypes) ==
  SelectSeq(lines, LAMBDA l : l.type \in enabledTypes)

(***************************************************************************)
(* AddonBase.                                                              *)
(***************************************************************************)
\* The fields of a fresh instance: _name and listeners = [].
AddonBase(loggerName) == [name |-> loggerName, listeners |-> << >>]

\* One name of registerListener's loop: create the list, push the callbacks.
PushCallbacks(ls, name, callbacks) ==
  IF \E i \in 1..Len(ls) : ls[i].ev = name
  THEN LET i == CHOOSE k \in 1..Len(ls) : ls[k].ev = name
       IN  [ls EXCEPT ![i].cbs = @ \o callbacks]
  ELSE Append(ls, [ev |-> name, cbs |-> callbacks])

\* registerListener(eventName, callbacks), both given as arrays.
RECURSIVE registerListener(_, _, _)
registerListener(inst, eventName, callbacks) ==
  IF eventName = << >> THEN inst
  ELSE registerListener(
         [inst EXCEPT !.listeners = PushCallbacks(@, Head(eventName), callbacks)],
         Tail(eventName), callbacks)

\* Mutant of IsValidInputEvent: the inbound vocabulary is consulted.
IsValidInputEventWrongList(eventName) == IndexOfHit(validListenEvents, eventName)

\* The vocabulary test of sendEvent.
IsValidInputEvent(eventName) == IndexOfHit(validInputEvents, eventName)

\* sendEvent(eventName): st carries the lines logged, the calls of emitter.send
\* (tried) and those of them that returned (sent).
sendEvent(inst, eventName, st) ==
  IF IsValidInputEvent(eventName)
  THEN IF emitterOk
       THEN [st EXCEPT !.tried = Append(@, eventName), !.sent = Append(@, eventName)]
       ELSE [st EXCEPT !.tried = Append(@, eventName),
                       !.log = Append(@,
               LogLine("error", inst.name, "Error send input event", inst.name, eventName))]
  ELSE [st EXCEPT !.log = Append(@,
          LogLine("warn", inst.name, "sendEvent: Ignored invalid eventName", inst.name, eventName))]

\* Object.keys(addon.listeners): the property names in the order they were
\* created (event names are no array indices and no Array property names).
ListenerKeys(inst) == [i \in 1..Len(inst.listeners) |-> inst.listeners[i].ev]

\* Array.isArray(addon.listeners[eventName]); the list, when there is one.
HasList(inst, eventName) == \E i \in 1..Len(inst.listeners) : inst.listeners[i].ev = eventName
ListOf(inst, eventName) ==
  inst.listeners[CHOOSE i \in 1..Len(inst.listeners) : inst.listeners[i].ev = eventName].cbs

(***************************************************************************)
(* Running addon code.  target is what the body's argument (or this) is:   *)
(* "base" an AddonBase instance, "config" the raw addonConfig object,      *)
(* "plain" an object of a class that does not extend AddonBase.  Calling   *)
(* registerListener or sendEvent on anything but "base" is a TypeError.    *)
(* The result is [inst, st, err], err "none", "Error" or "TypeError".      *)
(***************************************************************************)
RECURSIVE RunBody(_, _, _, _)
RunBody(body, target, inst, st) ==
  IF body = << >> THEN [inst |-> inst, st |-> st, err |-> "none"]
  ELSE LET o == Head(body) IN
       CASE o.op = "effect" ->
              RunBody(Tail(body), target, inst,
                      [st EXCEPT !.effects = Append(@, inst.name)])
         [] o.op = "throw" -> [inst |-> inst, st |-> st, err |-> o.err]
         [] o.op = "reg" ->
              IF target = "base"
              THEN RunBody(Tail(body), target,
                           registerListener(inst, o.evs, o.cbs), st)
              ELSE [inst |-> inst, st |-> st, err |-> "TypeError"]
         [] o.op = "send" ->
              IF target = "base"
              THEN RunBody(Tail(body), target, inst, sendEvent(inst, o.ev, st))
              ELSE [inst |-> inst, st |-> st, err |-> "TypeError"]

\* Entering the body of an exported unit: the entry is recorded.
EnterBody(unit, target, inst, st) ==
  RunBody(unit.body, target, inst,
          [st EXCEPT !.entered = Append(@, [unit |-> unit.fname, arg |-> target])])

(***************************************************************************)
(* The load pass of the AddonInterface constructor.                        *)
(***************************************************************************)
\* What a call works on: the registry's lists and the call's output.
\* attempts holds, for each new AddonClass(addonConfig), the addon, the error
\* that left it ("none" when it returned) and whether the fallback followed.
EmptyRun(as, ls) ==
  [addons |-> as, listeners |-> ls, log |-> << >>, tried |-> << >>, sent |-> << >>,
   entered |-> << >>, effects |-> << >>, visited |-> << >>,
   attempts |-> << >>, invoked |-> << >>, threw |-> "none"]

RegLog(st, type, tag, addonName, ev) ==
  [st EXCEPT !.log = Append(@, LogLine(type, RegistryLoggerName, tag, addonName, ev))]

\* Reading .enabled of the looked-up value throws for undefined and null.
PropertyReadThrows(v) == v.kind \in { "undefined", "null" }

\* config.addonInterface.addons[addonName].enabled === false
DisabledInConfig(v) == v.enabled = "false"

\* addonName !== 'addonInterface' && typeof value === 'object'
Loadable(addonName, v) ==
  addonName # ReservedName /\ v.kind \in { "object", "null" }

\* AddonClass = require(...); if (AddonClass.addon) AddonClass = AddonClass.addon
ResolveUnit(m) == IF m.addon.kind # "none" THEN m.addon ELSE m.top

\* typeof AddonClass === 'function'
IsFunction(unit) == unit.kind \in { "class", "plainclass", "function", "arrow" }

\* new AddonClass(addonConfig)
ConstructClassStyle(unit, st) ==
  CASE unit.kind = "class" ->
         EnterBody(unit, "base", AddonBase(unit.fname), st)
    [] unit.kind = "plainclass" ->
         EnterBody(unit, "plain", AddonBase(unit.fname), st)
    [] unit.kind = "function" ->
         EnterBody(unit, "config", AddonBase(unit.fname), st)
    [] OTHER ->   \* an arrow function is no constructor
         [inst |-> AddonBase(unit.fname), st |-> st, err |-> "TypeError"]

\* Mutant of ClassStyleIsBase: the instanceof test accepts every object.
ClassStyleIsBaseAlways(unit) == TRUE

\* newAddon instanceof AddonBase, for the object the class-style attempt made
ClassStyleIsBase(unit) == unit.kind = "class"

\* Mutant of UseFallback: every error leads to the function-style attempt.
UseFallbackAnyError(err) == err # "none"

\* loadErr instanceof TypeError
UseFallback(err) == err = "TypeError"

\* new (class extends AddonBase { constructor(config, loggerName) {
\*   super(config, loggerName); AddonClass(this) } })(addonConfig,
\*   AddonClass.name || addonName)
ConstructFallback(unit, addonName, st) ==
  LET base == AddonBase(IF unit.fname # << >> THEN unit.fname ELSE addonName)
  IN  IF unit.kind \in { "function", "arrow" }
      THEN EnterBody(unit, "base", base, st)
      ELSE \* a class constructor cannot be invoked without new
           [inst |-> base, st |-> st, err |-> "TypeError"]

\* Mutant of MergeListeners: every key is pushed, subscribed or not.
MergeListenersNoDedupe(ls, keys) == ls \o keys

\* this.listeners gets every key of the new addon's listeners it lacks.
RECURSIVE MergeListeners(_, _)
MergeListeners(ls, keys) ==
  IF keys = << >> THEN ls
  ELSE MergeListeners(IF IndexOfHit(ls, Head(keys)) THEN ls ELSE Append(ls, Head(keys)),
                      Tail(keys))

\* The catch of the load: the error is logged, the addon is left out.
CatchLoadError(st, addonName) ==
  RegLog(st, "error", "Error initialize addon", addonName, "")

\* The try block that loads one addon.
LoadAddon(addonName, st) ==
  LET m == AddonModule(addonName)
      unit == ResolveUnit(m)
  IN  IF ~m.found THEN CatchLoadError(st, addonName)
      ELSE IF ~IsFunction(unit) THEN CatchLoadError(st, addonName)
      ELSE LET r1 == ConstructClassStyle(unit, st)
               fell == UseFallback(r1.err)
               st1 == [r1.st EXCEPT !.attempts =
                         Append(@, [addon |-> addonName, err |-> r1.err, fell |-> fell])]
               r == IF fell THEN ConstructFallback(unit, addonName, st1)
                    ELSE [r1 EXCEPT !.st = st1]
               isBase == fell \/ ClassStyleIsBase(unit)
           IN  IF r.err # "none" THEN CatchLoadError(r.st, addonName)
               ELSE IF ~isBase THEN CatchLoadError(r.st, addonName)
               ELSE RegLog([r.st EXCEPT
                              !.addons = Append(@, r.inst),
                              !.listeners = MergeListeners(@, ListenerKeys(r.inst))],
                           "info", "Successfully loaded addon", addonName, "")

\* One run of the forEach callback over Object.keys(config.addonInterface.addons).
LoadOne(c, key, st0) ==
  LET addonName == removeInvalidAddonNameChars(key)
      v == Lookup(c, addonName)
      st == [st0 EXCEPT !.visited = Append(@, key)]
  IN  IF PropertyReadThrows(v) THEN [st EXCEPT !.threw = "TypeError"]
      ELSE IF DisabledInConfig(v)
           THEN RegLog(st, "warn", "disabled in config", addonName, "")
      ELSE IF Loadable(addonName, v) THEN LoadAddon(addonName, st)
      ELSE st

RECURSIVE LoadFrom(_, _, _)
LoadFrom(c, i, st) ==
  IF i > Len(c) \/ st.threw # "none" THEN st
  ELSE LoadFrom(c, i + 1, LoadOne(c, c[i].key, st))

\* validListenEvents.indexOf(eventName) > -1
IsValidListenEvent(eventName) == IndexOfHit(validListenEvents, eventName)

\* The second loop of the constructor: one ipcMain.on per subscribed name of
\* the vocabulary.  The result is [installed, st].
RECURSIVE InstallFrom(_, _, _)
InstallFrom(i, inst, st) ==
  IF i > Len(st.listeners) THEN [installed |-> inst, st |-> st]
  ELSE LET eventName == st.listeners[i] IN
       IF IsValidListenEvent(eventName)
       THEN InstallFrom(i + 1, Append(inst, eventName),
                        RegLog(st, "info", "Installed listener", << >>, eventName))
       ELSE InstallFrom(i + 1, inst,
                        RegLog(st, "warn", "Ignore definition for unknown event listener",
                               << >>, eventName))

(***************************************************************************)
(* executeEventCallbacks.                                                  *)
(***************************************************************************)
\* Mutant of RunCallbacks: every callback runs, a throw ends nothing.
RECURSIVE RunCallbacksAll(_, _, _, _)
RunCallbacksAll(cbs, a, k, st) ==
  IF k > Len(cbs) THEN [st |-> st, err |-> "none"]
  ELSE RunCallbacksAll(cbs, a, k + 1,
                       [st EXCEPT !.invoked = Append(@, [addon |-> a, pos |-> k])])

\* addon.listeners[eventName].forEach(callback => callback(...args)): the
\* callbacks run in order until one throws.  The result is [st, err].
RECURSIVE RunCallbacks(_, _, _, _)
RunCallbacks(cbs, a, k, st) ==
  IF k > Len(cbs) THEN [st |-> st, err |-> "none"]
  ELSE LET st1 == [st EXCEPT !.invoked = Append(@, [addon |-> a, pos |-> k])]
       IN  IF cbs[k] = "throw" THEN [st |-> st1, err |-> "Error"]
           ELSE RunCallbacks(cbs, a, k + 1, st1)

\* Mutant of AddonBatch: the forEach runs outside any try, the error leaves.
AddonBatchNoCatch(a, eventName, st) ==
  LET r == RunCallbacks(ListOf(st.addons[a], eventName), a, 1, st)
  IN  IF r.err = "none" THEN r.st ELSE [r.st EXCEPT !.threw = r.err]

\* try { ...forEach... } catch(error) { this.logger.error(...) } for addon a.
AddonBatch(a, eventName, st) ==
  LET r == RunCallbacks(ListOf(st.addons[a], eventName), a, 1, st)
  IN  IF r.err = "none" THEN r.st
      ELSE RegLog(r.st, "error", "Error execute callback", st.addons[a].name, eventName)

\* this.addons.forEach(addon => ...)
RECURSIVE DispatchFrom(_, _, _)
DispatchFrom(a, eventName, st) ==
  IF a > Len(st.addons) \/ st.threw # "none" THEN st
  ELSE DispatchFrom(a + 1, eventName,
                    IF HasList(st.addons[a], eventName)
                    THEN AddonBatch(a, eventName, st)
                    ELSE st)

\* this.listeners.indexOf(eventName) > -1
IsSubscribed(ls, eventName) == IndexOfHit(ls, eventName)

executeEventCallbacks(eventName, st) ==
  IF IsSubscribed(st.listeners, eventName) THEN DispatchFrom(1, eventName, st) ELSE st

\* ipcMain emits eventName: every handler installed for it runs in turn.
RECURSIVE RunHandlers(_, _, _)
RunHandlers(i, eventName, st) ==
  IF i > Len(installed) \/ st.threw # "none" THEN st
  ELSE RunHandlers(i + 1, eventName,
                   IF installed[i] = eventName
                   THEN executeEventCallbacks(eventName, st)
                   ELSE st)

(***************************************************************************)
(* Actions of the registry.                                                *)
(***************************************************************************)
\* The events the host, the renderer and the addons use in the model.
DispatchNames == { "newImage", "paused", "starImage", "explode", "bogus" }
SendNames == { "next", "explode" }

Out(op, arg, who, st) ==
  [op |-> op, arg |-> arg, who |-> who, threw |-> st.threw, log |-> st.log,
   tried |-> st.tried, sent |-> st.sent, invoked |-> st.invoked, entered |-> st.entered,
   effects |-> st.effects, visited |-> st.visited, attempts |-> st.attempts]

NoOut == Out("none", "", 0, EmptyRun(<< >>, << >>))

\* Mutant of SingletonSet: the reference is never found set.
SingletonSetNever == FALSE

\* addonInterfaceObj !== null
SingletonSet == addonInterfaceObj # "null"

\* throw new AddonError("Only one instance of the AddonInterface-class is allowed.")
RejectSecond(op) ==
  /\ out' = Out(op, "", 0, [EmptyRun(<< >>, << >>) EXCEPT !.threw = "AddonError"])
  /\ UNCHANGED << cfg, logTypes, emitterOk, addonInterfaceObj, instances, hostHas,
                  addons, listeners, installed >>
  /\ UNCHANGED ctlVars

\* The constructor's body once the singleton test has passed.
Construct(op) ==
  LET st0 == RegLog(EmptyRun(<< >>, << >>), "info", "Load addons...", << >>, "")
      st1 == LoadFrom(cfg, 1, st0)
      ins == InstallFrom(1, << >>, RegLog(st1, "info", "Initialize addons...", << >>, ""))
      st2 == RegLog(ins.st, "info", "Addons loaded and initialized", << >>, "")
  IN  /\ addonInterfaceObj' = "set"
      /\ instances' = instances + 1
      /\ IF st1.threw # "none"
         THEN /\ addons' = st1.addons
              /\ listeners' = st1.listeners
              /\ installed' = << >>
              /\ hostHas' = hostHas
              /\ out' = Out(op, "", 0, st1)
         ELSE /\ addons' = st2.addons
              /\ listeners' = st2.listeners
              /\ installed' = ins.installed
              /\ hostHas' = TRUE
              /\ out' = Out(op, "", 0, st2)
      /\ UNCHANGED << cfg, logTypes, emitterOk >>
      /\ UNCHANGED ctlVars

\* static initAddonInterface(images, logger, emitter, ipcMain, config)
InitAddonInterface ==
  IF SingletonSet THEN RejectSecond("init") ELSE Construct("init")

\* new AddonInterface(images, logger, emitter, ipcMain, config)
NewAddonInterface ==
  IF SingletonSet THEN RejectSecond("new") ELSE Construct("new")

\* The host calls executeEventCallbacks(eventName) on the registry it holds.
HostDispatch ==
  /\ hostHas
  /\ \E eventName \in DispatchNames :
       out' = Out("dispatch", eventName, 0,
                  executeEventCallbacks(eventName, EmptyRun(addons, listeners)))
  /\ UNCHANGED << cfg, logTypes, emitterOk, addonInterfaceObj, instances, hostHas,
                  addons, listeners, installed >>
  /\ UNCHANGED ctlVars

\* The inbound event source fires eventName.
IpcEvent ==
  /\ \E eventName \in DispatchNames :
       /\ IndexOfHit(installed, eventName)
       /\ out' = Out("ipc", eventName, 0,
                     RunHandlers(1, eventName, EmptyRun(addons, listeners)))
  /\ UNCHANGED << cfg, logTypes, emitterOk, addonInterfaceObj, instances, hostHas,
                  addons, listeners, installed >>
  /\ UNCHANGED ctlVars

\* A loaded addon calls sendEvent(eventName) on itself.
AddonSendEvent ==
  /\ \E a \in 1..Len(addons), eventName \in SendNames :
       out' = Out("send", eventName, a,
                  sendEvent(addons[a], eventName, EmptyRun(addons, listeners)))
  /\ UNCHANGED << cfg, logTypes, emitterOk, addonInterfaceObj, instances, hostHas,
                  addons, listeners, installed >>
  /\ UNCHANGED ctlVars

\* The event names addons register for after the load pass.
RuntimeNames == { "starImage", "newImage" }

\* The callbacks the loaded addons registered after the load pass.
LateCallbacks ==
  UNION { UNION { { << a, i, k >> :
                      k \in { m \in 1..Len(addons[a].listeners[i].cbs) :
                                addons[a].listeners[i].cbs[m] = "late" } } :
                  i \in 1..Len(addons[a].listeners) } :
          a \in 1..Len(addons) }

\* A loaded addon calls registerListener(eventName, callback) on itself at
\* run time, for example from one of its callbacks: its own listeners get the
\* callback, nothing of the registry is touched.  The addon may be one of a
\* registry whose construction raised after the addon was loaded.
AddonRegisterListener ==
  /\ Cardinality(LateCallbacks) < MaxRuntimeRegs
  /\ \E a \in 1..Len(addons), eventName \in RuntimeNames :
       /\ addons' = [addons EXCEPT
                       ![a] = registerListener(@, << eventName >>, << "late" >>)]
       /\ out' = Out("register", eventName, a, EmptyRun(addons', listeners))
  /\ UNCHANGED << cfg, logTypes, emitterOk, addonInterfaceObj, instances, hostHas,
                  listeners, installed >>
  /\ UNCHANGED ctlVars

(***************************************************************************)
(* addonControl: the command surface.  The in-memory configuration is the  *)
(* object the configuration module exports; a process keeps it from one    *)
(* call to the next.  An entry is an object with the properties enabled    *)
(* and interval and, in extra, every other property as a pair of key and   *)
(* value.  The booleans and a missing property are "true", "false" and     *)
(* "absent"; a string is itself, the strings of these three words quoted.  *)
(***************************************************************************)
\* Largest number of addonControl calls of one process.
MaxCmds == 2

CtlEntry(en, iv) == [enabled |-> en, interval |-> iv, extra |-> { }]

\* The value of entry[key].
CtlField(entry, key) ==
  CASE key = "enabled"  -> entry.enabled
    [] key = "interval" -> entry.interval
    [] OTHER ->
         IF \E p \in entry.extra : p[1] = key
         THEN (CHOOSE p \in entry.extra : p[1] = key)[2]
         ELSE "absent"

\* A string of the command line as a value of the configuration.
StringValue(s) ==
  CASE s = "true"   -> "'true'"
    [] s = "false"  -> "'false'"
    [] s = "absent" -> "'absent'"
    [] OTHER        -> s

\* config.addonInterface.addons[addonName] is truthy
CtlHas(c, addonName) == \E i \in 1..Len(c) : c[i].key = addonName
CtlIndex(c, addonName) == CHOOSE i \in 1..Len(c) : c[i].key = addonName
CtlGet(c, addonName) == c[CtlIndex(c, addonName)].val

\* config.addonInterface.addons[addonName] = val
CtlPut(c, addonName, val) ==
  IF CtlHas(c, addonName)
  THEN [c EXCEPT ![CtlIndex(c, addonName)].val = val]
  ELSE Append(c, [key |-> addonName, val |-> val])

\* delete config.addonInterface.addons[addonName]
CtlDelete(c, addonName) == SelectSeq(c, LAMBDA e : e.key # addonName)

\* What one call works on.
CtlRun(c, p) ==
  [config |-> c, persisted |-> p, wrote |-> 0, console |-> << >>,
   table |-> << >>, threw |-> "none", exited |-> FALSE,
   ctrlCalled |-> FALSE, ctrlConfig |-> CtlEntry("absent", "absent"),
   ctrlArgs |-> << >>]

Say(r, line) == [r EXCEPT !.console = Append(@, line)]

\* config.writeConfig(): the in-memory configuration is persisted, or the
\* call throws.  The result is [r, err].
writeConfig(r) ==
  IF writeOk
  THEN [r |-> [r EXCEPT !.wrote = @ + 1, !.persisted = r.config], err |-> "none"]
  ELSE [r |-> [r EXCEPT !.wrote = @ + 1], err |-> "Error"]

\* The table the status command prints: each name with enabled !== false.
StatusTable(c) ==
  [i \in 1..Len(c) |-> [name |-> c[i].key, enabled |-> c[i].val.enabled # "false"]]

\* !command || ['help', '--help', '-h'].indexOf(command) > -1
\*          || (command !== 'status' && !addonName)
PrintsUsage(command, hasName, addonName) ==
  \/ command = ""
  \/ command \in { "help", "--help", "-h" }
  \/ (command # "status" /\ (~hasName \/ addonName = << >>))

\* Mutant of EnableUpdateConfig: enable always takes the writing branch.
EnableUpdateConfigAlways(c, addonName) == TRUE

\* let updateConfig = !config.addonInterface.addons[addonName]
EnableUpdateConfig(c, addonName) == ~CtlHas(c, addonName)

\* case 'enable', with the folder present
EnableBody(addonName, r) ==
  LET c == r.config
      updateConfig == EnableUpdateConfig(c, addonName)
      c1 == IF CtlHas(c, addonName) /\ CtlGet(c, addonName).enabled = "false"
            THEN CtlPut(c, addonName, [CtlGet(c, addonName) EXCEPT !.enabled = "true"])
            ELSE IF updateConfig
                 THEN CtlPut(c, addonName, CtlEntry("true", "absent"))
                 ELSE c
      r1 == [r EXCEPT !.config = c1]
  IN  IF updateConfig
      THEN LET w == writeConfig(r1)
           IN  IF w.err = "none" THEN Say(w.r, "Enabled addon")
               ELSE Say(w.r, "Error enable addon")
      ELSE Say(r1, "Nothing to do. Already enabled")

\* case 'enable'
Enable(addonName, r) ==
  IF addonName \notin folders
  THEN [Say(r, "Addon folder does not exist") EXCEPT !.exited = TRUE]
  ELSE EnableBody(addonName, r)

\* case 'disable'
Disable(addonName, r) ==
  LET c == r.config IN
  IF CtlHas(c, addonName) /\ CtlGet(c, addonName).enabled # "false"
  THEN LET r1 == [r EXCEPT !.config =
                    CtlPut(c, addonName, [CtlGet(c, addonName) EXCEPT !.enabled = "false"])]
           w == writeConfig(r1)
       IN  IF w.err = "none" THEN Say(w.r, "Disabled addon")
           ELSE Say(w.r, "Error updating config to enable addon")
  ELSE Say(r, "Nothing to do. Already disabled or not installed")

\* case 'remove'
Remove(addonName, r) ==
  LET c == r.config IN
  IF CtlHas(c, addonName)
  THEN LET w == writeConfig([r EXCEPT !.config = CtlDelete(c, addonName)])
       IN  IF w.err = "none" THEN Say(w.r, "Removed addon")
           ELSE Say(w.r, "Error updating config to remove addon")
  ELSE Say(r, "Nothing to do. Not enabled or installed")

\* setConfigValue(key, value): config.addonInterface.addons[addonName][key]
\* = value, for any key; the value is a string of the command line.
setConfigValue(c, addonName, key, value) ==
  LET entry == CtlGet(c, addonName)
      v == StringValue(value)
  IN  CtlPut(c, addonName,
             CASE key = "enabled"  -> [entry EXCEPT !.enabled = v]
               [] key = "interval" -> [entry EXCEPT !.interval = v]
               [] OTHER ->
                    [entry EXCEPT !.extra =
                       { p \in @ : p[1] # key } \cup { << key, v >> }])

\* What an addon's configCtrl(config, setConfigValue, ...args) does: ctrl is
\* "setTrue" or "setFalse" (it calls the setter with its first two arguments
\* and returns true or false), "idleTrue" or "idleFalse" (it changes nothing)
\* or "throws".  The result is [config, ret, err].
configCtrl(ctrl, c, addonName, args) ==
  CASE ctrl \in { "setTrue", "setFalse" } ->
         [config |-> setConfigValue(c, addonName, args[1], args[2]),
          ret |-> (ctrl = "setTrue"), err |-> "none"]
    [] ctrl = "throws" -> [config |-> c, ret |-> FALSE, err |-> "Error"]
    [] OTHER -> [config |-> c, ret |-> (ctrl = "idleTrue"), err |-> "none"]

\* typeof configCtrl === 'function'
HasConfigCtrl(ctrl) == ctrl \notin { "none", "loadfail" }

\* Mutant of WriteIfTruthy: the write runs outside the try, its error leaves.
WriteIfTruthyNoCatch(ret, r) ==
  IF ret
  THEN LET w == writeConfig(r)
       IN  IF w.err = "none" THEN Say(w.r, "Config changed")
           ELSE [w.r EXCEPT !.threw = w.err]
  ELSE r

\* if (writeConfig) { config.writeConfig(); ... }
WriteIfTruthy(ret, r) ==
  IF ret
  THEN LET w == writeConfig(r)
       IN  IF w.err = "none" THEN Say(w.r, "Config changed")
           ELSE Say(w.r, "Error updating config")
  ELSE r

\* case 'config'
Config(addonName, args, ctrl, r) ==
  IF Len(args) < 2
  THEN [Say(r, "Too few arguments") EXCEPT !.exited = TRUE]
  ELSE IF ~CtlHas(r.config, addonName)
  THEN [Say(r, "Error configuring not installed addon") EXCEPT !.exited = TRUE]
  ELSE LET r0 == IF ctrl = "loadfail" THEN Say(r, "Failed to load configControl") ELSE r
       IN  IF HasConfigCtrl(ctrl)
           THEN LET k == configCtrl(ctrl, r0.config, addonName, args)
                    r1 == [Say(r0, "Use configCtrl function") EXCEPT
                             !.ctrlCalled = TRUE,
                             !.ctrlConfig = CtlGet(r0.config, addonName),
                             !.ctrlArgs = args,
                             !.config = k.config]
                IN  IF k.err # "none" THEN Say(r1, "Error updating config")
                    ELSE WriteIfTruthy(k.ret, r1)
           ELSE WriteIfTruthy(TRUE,
                  [r0 EXCEPT !.config = setConfigValue(@, addonName, args[1], args[2])])

\* const addonPath = path.resolve(...): path is no binding of the module.
PathResolveThrows == ~pathBound

\* static addonControl(command, addonName, ...args)
addonControl(command, hasName, addonName0, args, ctrl, r0) ==
  LET r1 == IF PrintsUsage(command, hasName, addonName0) THEN Say(r0, "Usage") ELSE r0
  IN  IF ~hasName THEN [r1 EXCEPT !.threw = "TypeError"]
      ELSE LET addonName == removeInvalidAddonNameChars(addonName0)
               r2 == IF command = "status"
                     THEN [Say(r1, "status") EXCEPT !.table = StatusTable(r1.config)]
                     ELSE r1
           IN  IF PathResolveThrows THEN [r2 EXCEPT !.threw = "ReferenceError"]
               ELSE CASE command = "enable"  -> Enable(addonName, r2)
                      [] command = "disable" -> Disable(addonName, r2)
                      [] command = "remove"  -> Remove(addonName, r2)
                      [] command = "config"  -> Config(addonName, args, ctrl, r2)
                      [] OTHER -> r2

(***************************************************************************)
(* Actions of the command surface: one per command.                        *)
(***************************************************************************)
CtlX == << "x" >>
CtlY == << "y" >>
CtlDotX == << ".", "/", " ", "x" >>

\* One call of addonControl in the running process.
Control(command, hasName, addonName, args, ctrl) ==
  LET r == addonControl(command, hasName, addonName, args, ctrl,
                        CtlRun(ctlConfig, persisted))
  IN  /\ ctlAlive
      /\ Len(ctlHist) < MaxCmds
      /\ ctlConfig' = r.config
      /\ persisted' = r.persisted
      /\ ctlAlive' = ~r.exited
      /\ ctlHist' = Append(ctlHist,
           [cmd |-> command, hasName |-> hasName, name |-> addonName,
            args |-> args, ctrl |-> ctrl, before |-> ctlConfig,
            persistedBefore |-> persisted, after |-> r.config,
            persistedAfter |-> r.persisted, wrote |-> r.wrote,
            console |-> r.console, table |-> r.table, threw |-> r.threw,
            exited |-> r.exited, ctrlCalled |-> r.ctrlCalled,
            ctrlConfig |-> r.ctrlConfig, ctrlArgs |-> r.ctrlArgs])
      /\ UNCHANGED << folders, pathBound, writeOk >>
      /\ UNCHANGED regVars

CtlStatus ==
  \E hasName \in BOOLEAN : Control("status", hasName, CtlX, << >>, "none")

CtlHelp == Control("help", TRUE, CtlX, << >>, "none")

CtlEnable ==
  \E hasName \in BOOLEAN :
    \E addonName \in IF hasName THEN { CtlX, CtlDotX } ELSE { << >> } :
      Control("enable", hasName, addonName, << >>, "none")

CtlDisable ==
  \E addonName \in { CtlX, CtlY } : Control("disable", TRUE, addonName, << >>, "none")

CtlRemove ==
  \E addonName \in { CtlX, CtlY } : Control("remove", TRUE, addonName, << >>, "none")

\* The behaviours of the addon's module under the config command.
Ctrls == { "none", "loadfail", "setTrue", "setFalse", "idleTrue", "idleFalse", "throws" }

\* The calls of the config command: addon, arguments, module behaviour.
ConfigCalls ==
  { << CtlX, << "interval", "9" >>, ctrl >> : ctrl \in Ctrls }
    \cup { << CtlX, << "interval" >>, "none" >>,
           << CtlY, << "interval", "9" >>, "none" >>,
           << CtlX, << "enabled", "false" >>, "none" >>,
           << CtlX, << "enabled", "9" >>, "setTrue" >>,
           << CtlX, << "color", "red" >>, "none" >> }

CtlConfig ==
  \E call \in ConfigCalls : Control("config", TRUE, call[1], call[2], call[3])

(***************************************************************************)
(* Specifications.                                                         *)
(***************************************************************************)
RegIdle ==
  /\ cfg = << >>
  /\ logTypes = { "info", "warn", "error" }
  /\ emitterOk = TRUE
  /\ addonInterfaceObj = "null"
  /\ instances = 0
  /\ hostHas = FALSE
  /\ addons = << >>
  /\ listeners = << >>
  /\ installed = << >>
  /\ out = NoOut

CtlIdle ==
  /\ ctlConfig = << >>
  /\ persisted = << >>
  /\ folders = { }
  /\ pathBound = FALSE
  /\ writeOk = TRUE
  /\ ctlAlive = TRUE
  /\ ctlHist = << >>

\* The registry: the state before initAddonInterface is called.
Init ==
  /\ cfg \in Configs
  /\ logTypes = { "info", "warn", "error" }
  /\ emitterOk \in BOOLEAN
  /\ addonInterfaceObj = "null"
  /\ instances = 0
  /\ hostHas = FALSE
  /\ addons = << >>
  /\ listeners = << >>
  /\ installed = << >>
  /\ out = NoOut
  /\ CtlIdle

Next ==
  \/ InitAddonInterface
  \/ NewAddonInterface
  \/ HostDispatch
  \/ IpcEvent
  \/ AddonSendEvent
  \/ AddonRegisterListener

vars == << regVars, ctlVars >>

Spec == Init /\ [][Next]_vars

\* The configurations a control process starts from.
CtlConfigs ==
  { cx \o cy :
      cx \in { << >> } \cup
             { << [key |-> CtlX, val |-> v] >> :
                 v \in { CtlEntry("absent", "absent"), CtlEntry("true", "5"),
                         CtlEntry("false", "5") } },
      cy \in { << >>, << [key |-> CtlY, val |-> CtlEntry("false", "absent")] >> } }

\* The command surface: a process that has loaded the persisted configuration.
CtlInit ==
  /\ ctlConfig \in CtlConfigs
  /\ persisted = ctlConfig
  /\ folders \in { { }, { CtlX } }
  /\ pathBound \in BOOLEAN
  /\ writeOk \in BOOLEAN
  /\ ctlAlive = TRUE
  /\ ctlHist = << >>
  /\ RegIdle

CtlNext ==
  \/ CtlStatus
  \/ CtlHelp
  \/ CtlEnable
  \/ CtlDisable
  \/ CtlRemove
  \/ CtlConfig

CtlSpec == CtlInit /\ [][CtlNext]_vars

(***************************************************************************)
(* Properties of the registry (specification Spec).                        *)
(***************************************************************************)
ConstructOps == { "init", "new" }
DispatchOps == { "dispatch", "ipc" }

\* The call that produced out is a construction that passed the singleton test.
Constructed == out.op \in ConstructOps /\ out.threw # "AddonError"

Invoked(a, k) ==
  \E i \in 1..Len(out.invoked) : out.invoked[i] = [addon |-> a, pos |-> k]

Logged(type, who, tag, addonName, ev) ==
  \E i \in 1..Len(out.log) : out.log[i] = LogLine(type, who, tag, addonName, ev)

\* C1: for two loaded addons A, loaded first, and B that both hold a callback
\* list for the dispatched event, a name of the subscription set, one
\* executeEventCallbacks runs A's list before B's list, no exception leaves
\* the call, and B's list is run even when a callback of A throws: every
\* callback of B that no throwing callback of B's own list precedes is invoked.
C1_LoadOrderAndIsolation ==
  out.op \in DispatchOps =>
    /\ out.threw = "none"
    /\ \A i, j \in 1..Len(out.invoked) :
         out.invoked[i].addon < out.invoked[j].addon => i < j
    /\ IsSubscribed(listeners, out.arg) =>
         \A a, b \in 1..Len(addons) :
           (a < b /\ HasList(addons[a], out.arg) /\ HasList(addons[b], out.arg)) =>
             LET LB == ListOf(addons[b], out.arg) IN
             /\ ListOf(addons[a], out.arg) # << >> => Invoked(a, 1)
             /\ \A k \in 1..Len(LB) :
                  (\A m \in 1..(k - 1) : LB[m] # "throw") => Invoked(b, k)

\* C1 as first stated: A's list runs before B's list, no exception leaves the
\* call, and when a callback of A's list throws every callback of B's list is
\* invoked, those after a throwing callback of B's own list included.
C1_EveryCallbackOfB ==
  out.op \in DispatchOps =>
    /\ out.threw = "none"
    /\ \A i, j \in 1..Len(out.invoked) :
         out.invoked[i].addon < out.invoked[j].addon => i < j
    /\ IsSubscribed(listeners, out.arg) =>
         \A a, b \in 1..Len(addons) :
           (a < b /\ HasList(addons[a], out.arg) /\ HasList(addons[b], out.arg)) =>
             LET LA == ListOf(addons[a], out.arg)
                 LB == ListOf(addons[b], out.arg)
             IN  /\ LA # << >> => Invoked(a, 1)
                 /\ (\E m \in 1..Len(LA) : LA[m] = "throw") =>
                      \A k \in 1..Len(LB) : Invoked(b, k)

\* A dispatch of newImage to two addons holding the list ok, throw, ok: the
\* second callback of the first threw, the list of the second was run from
\* its first callback up to its own throwing one, and both throws were logged.
C1_Witness ==
  /\ out.op = "dispatch"
  /\ out.arg = "newImage"
  /\ Len(addons) = 2
  /\ ListOf(addons[1], "newImage") = << "ok", "throw", "ok" >>
  /\ ListOf(addons[2], "newImage") = << "ok", "throw", "ok" >>
  /\ out.invoked = << [addon |-> 1, pos |-> 1], [addon |-> 1, pos |-> 2],
                      [addon |-> 2, pos |-> 1], [addon |-> 2, pos |-> 2] >>
  /\ Logged("error", RegistryLoggerName, "Error execute callback", addons[1].name, "newImage")
  /\ out.threw = "none"

\* C2: for every configuration the load pass visits every declared name and
\* the construction of the registry completes without raising.
C2_LoadPassNeverRaises ==
  Constructed =>
    /\ out.threw = "none"
    /\ out.visited = [i \in 1..Len(cfg) |-> cfg[i].key]

\* C3: once initAddonInterface has returned a registry, every later
\* initAddonInterface and every direct construction throws the singleton
\* error and leaves the registry as it was (its addons, its subscriptions, its
\* installed handlers, the emitter, the reference the host dispatches
\* through); and at most one registry is ever constructed.
C3_SingletonKept ==
  /\ [](instances <= 1)
  /\ [][ (hostHas /\ out'.op \in ConstructOps) =>
           /\ out'.threw = "AddonError"
           /\ addons' = addons
           /\ listeners' = listeners
           /\ installed' = installed
           /\ emitterOk' = emitterOk
           /\ addonInterfaceObj' = addonInterfaceObj
           /\ hostHas' ]_vars

\* A second construction was refused while a registry with loaded addons and
\* installed handlers exists.
C3_Witness ==
  /\ out.op \in ConstructOps
  /\ out.threw = "AddonError"
  /\ hostHas
  /\ instances = 1
  /\ addons # << >>
  /\ installed # << >>

\* C4: sendEvent calls emitter.send exactly when the event name is in the
\* outbound vocabulary; for any other name the emitter is not reached and a
\* warning is logged by the addon's logger; no exception leaves sendEvent,
\* also when emitter.send throws.
C4_SendValidated ==
  /\ \A i \in 1..Len(out.tried) : IndexOfHit(validInputEvents, out.tried[i])
  /\ out.op = "send" =>
       /\ out.threw = "none"
       /\ IF IndexOfHit(validInputEvents, out.arg)
          THEN /\ out.tried = << out.arg >>
               /\ out.sent = IF emitterOk THEN << out.arg >> ELSE << >>
          ELSE /\ out.tried = << >>
               /\ out.sent = << >>
               /\ Logged("warn", addons[out.who].name,
                         "sendEvent: Ignored invalid eventName",
                         addons[out.who].name, out.arg)

\* An addon sent "explode": the emitter was not reached, a warning was logged.
C4_Witness ==
  /\ out.op = "send"
  /\ out.arg = "explode"
  /\ out.tried = << >>
  /\ out.threw = "none"
  /\ \E i \in 1..Len(out.log) : out.log[i].type = "warn" /\ out.log[i].ev = "explode"

\* The load pass logged a warning about the addon and loaded no instance of it.
SkippedWithWarning(addonName) ==
  /\ \E i \in 1..Len(out.log) :
       /\ out.log[i].type = "warn"
       /\ out.log[i].who = RegistryLoggerName
       /\ out.log[i].addon = addonName
  /\ ~Logged("info", RegistryLoggerName, "Successfully loaded addon", addonName, "")

\* C5: during the load pass a declared addon is skipped with a warning log,
\* and produces no instance, exactly when its enabled is explicitly false,
\* or its name is the reserved name, or its value is not an object.
C5_SkipExactly ==
  Constructed =>
    \A i \in 1..Len(cfg) :
      LET addonName == removeInvalidAddonNameChars(cfg[i].key)
          v == cfg[i].val
      IN  SkippedWithWarning(addonName)
            <=> (v.enabled = "false" \/ addonName = ReservedName \/ v.kind # "object")

RegisteredNames(unit) ==
  UNION { Range(unit.body[i].evs) : i \in { k \in 1..Len(unit.body) : unit.body[k].op = "reg" } }

\* C6: an enabled addon whose module exports a plain function, ordinary or
\* arrow, is loaded through the fallback: the function is entered with an
\* AddonBase instance, its registerListener and sendEvent calls succeed, the
\* instance is in the loaded list with the callbacks it registered, and the
\* names it registered are in the subscription set.
C6_FunctionFallback ==
  Constructed =>
    \A i \in 1..Len(cfg) :
      LET addonName == removeInvalidAddonNameChars(cfg[i].key)
          v == Lookup(cfg, addonName)
          m == AddonModule(addonName)
          unit == ResolveUnit(m)
          display == IF unit.fname # << >> THEN unit.fname ELSE addonName
      IN  ( /\ v.kind = "object" /\ v.enabled # "false" /\ addonName # ReservedName
            /\ m.found /\ unit.kind \in { "function", "arrow" } ) =>
            /\ \E e \in 1..Len(out.entered) :
                 out.entered[e] = [unit |-> unit.fname, arg |-> "base"]
            /\ \E a \in 1..Len(addons) :
                 /\ addons[a].name = display
                 /\ Range(ListenerKeys(addons[a])) = RegisteredNames(unit)
            /\ RegisteredNames(unit) \subseteq Range(listeners)
            /\ Logged("info", RegistryLoggerName, "Successfully loaded addon", addonName, "")
            /\ \A k \in 1..Len(unit.body) :
                 unit.body[k].op = "send" =>
                   IF IndexOfHit(validInputEvents, unit.body[k].ev)
                   THEN IndexOfHit(out.tried, unit.body[k].ev)
                   ELSE Logged("warn", display, "sendEvent: Ignored invalid eventName",
                               display, unit.body[k].ev)

(***************************************************************************)
(* Properties of the command surface (specification CtlSpec).              *)
(***************************************************************************)
\* The addon a call names, as the command uses it.
Target(h) == removeInvalidAddonNameChars(h.name)

\* Before the call the addon has an entry that is not explicitly disabled.
EnabledBefore(h) ==
  /\ h.hasName
  /\ CtlHas(h.before, Target(h))
  /\ CtlGet(h.before, Target(h)).enabled # "false"

\* C7: from an addon that is installed and enabled, with its folder present,
\* disable followed by enable leaves the entry with enabled true, and the two
\* commands together call the write operation exactly twice.
C7_DisableThenEnable ==
  \A k \in 1..(Len(ctlHist) - 1) :
    LET d == ctlHist[k]
        e == ctlHist[k + 1]
    IN  ( /\ d.cmd = "disable" /\ e.cmd = "enable"
          /\ EnabledBefore(d) /\ e.hasName /\ Target(e) = Target(d)
          /\ Target(d) \in folders ) =>
          /\ CtlHas(e.after, Target(d))
          /\ CtlGet(e.after, Target(d)).enabled = "true"
          /\ d.wrote + e.wrote = 2

\* C8: enable on an addon whose entry exists and is not explicitly disabled
\* (its folder present) reports a no-op, leaves the configuration as it was
\* and does not call the write operation.
C8_EnableNoOp ==
  \A k \in 1..Len(ctlHist) :
    LET e == ctlHist[k] IN
    (e.cmd = "enable" /\ EnabledBefore(e) /\ Target(e) \in folders) =>
      /\ e.console = << "Nothing to do. Already enabled" >>
      /\ e.threw = "none"
      /\ e.after = e.before
      /\ e.wrote = 0

\* The addon's configCtrl, when one ran, reported what it did: it returned a
\* truthy value exactly when it changed the configuration.
HonestCtrl(h) == h.ctrl \notin { "setFalse", "idleTrue" }

\* C9: a mutating command calls the write operation exactly when it changed
\* the in-memory configuration; so, when writes succeed, the persisted
\* configuration equals the in-memory configuration after any commands
\* (the addon's configCtrl being one that reports its changes).
C9_WriteIffChanged ==
  (\A k \in 1..Len(ctlHist) : HonestCtrl(ctlHist[k])) =>
    /\ \A k \in 1..Len(ctlHist) :
         LET h == ctlHist[k] IN
         h.cmd \in { "enable", "disable", "remove", "config" } =>
           (h.wrote > 0 <=> h.after # h.before)
    /\ writeOk => persisted = ctlConfig

\* C10: config on an installed addon whose module exports configCtrl calls
\* that function with the addon's configuration object, a setter and the
\* trailing arguments, and the write operation is called exactly when the
\* function returns a truthy value.
C10_ConfigCtrl ==
  \A k \in 1..Len(ctlHist) :
    LET h == ctlHist[k] IN
    ( /\ h.cmd = "config" /\ h.hasName /\ Len(h.args) >= 2
      /\ CtlHas(h.before, Target(h)) /\ HasConfigCtrl(h.ctrl) ) =>
      /\ h.ctrlCalled
      /\ h.ctrlConfig = CtlGet(h.before, Target(h))
      /\ h.ctrlArgs = h.args
      /\ h.wrote > 0 <=> h.ctrl \in { "setTrue", "idleTrue" }

(***************************************************************************)
(* Further properties of the registry (specification Spec).                *)
(***************************************************************************)
\* The handlers installed on ipcMain for the name n.
HandlersFor(n) == { i \in 1..Len(installed) : installed[i] = n }

\* C11: in every state each name with a handler installed on ipcMain is in
\* validListenEvents and no name has two handlers, and every subscribed name
\* of the vocabulary has exactly one handler, however many addons and
\* callbacks registered for it.
C11_InstalledHandlers ==
  /\ \A i \in 1..Len(installed) : IndexOfHit(validListenEvents, installed[i])
  /\ \A n \in Range(installed) : Cardinality(HandlersFor(n)) = 1
  /\ \A n \in Range(listeners) :
       IndexOfHit(validListenEvents, n) => Cardinality(HandlersFor(n)) = 1

\* The characters the sanitisation is to remove: '.', '/' and whitespace.
InvalidChar(ch) == ch \in { ".", "/" } \cup Whitespace

\* The name without its invalid characters, the others kept in order.
StripInvalidChars(addonName) == SelectSeq(addonName, LAMBDA ch : ~InvalidChar(ch))

\* C12: for every key the load pass visits, removeInvalidAddonNameChars
\* returns the key with every '.', '/' and whitespace character removed and
\* the other characters unchanged in order; so no addon name the load pass
\* logs holds such a character.
C12_SanitiseStripsAll ==
  out.op \in ConstructOps =>
    /\ \A i \in 1..Len(out.visited) :
         removeInvalidAddonNameChars(out.visited[i]) = StripInvalidChars(out.visited[i])
    /\ \A i \in 1..Len(out.log) :
         \A k \in 1..Len(out.log[i].addon) : ~InvalidChar(out.log[i].addon[k])

\* The name an instance made from the unit carries.
DisplayName(unit, addonName) == IF unit.fname # << >> THEN unit.fname ELSE addonName

\* The module is no function, or its construction raises, or what it
\* constructs is no AddonBase instance.
FailingUnit(m, unit) ==
  \/ ~m.found
  \/ unit.kind \notin { "class", "plainclass", "function", "arrow" }
  \/ \E i \in 1..Len(unit.body) : unit.body[i].op = "throw"
  \/ unit.kind = "plainclass"
  \/ /\ unit.kind = "function"
     /\ \A i \in 1..Len(unit.body) : unit.body[i].op \notin { "reg", "send" }

\* C14: every element of the loaded list is an AddonBase instance made from
\* a declared addon whose unit ran to completion on that instance, holding
\* the names the unit registered; an addon whose module is no function, whose
\* construction raises or whose instance is no AddonBase is not in the list,
\* and the subscription set holds only names of instances in the list.
C14_LoadedAreBase ==
  Constructed =>
    /\ \A a \in 1..Len(addons) :
         \E i \in 1..Len(cfg) :
           LET addonName == removeInvalidAddonNameChars(cfg[i].key)
               m == AddonModule(addonName)
               unit == ResolveUnit(m)
           IN  /\ ~FailingUnit(m, unit)
               /\ addons[a].name = DisplayName(unit, addonName)
               /\ Range(ListenerKeys(addons[a])) = RegisteredNames(unit)
               /\ \E e \in 1..Len(out.entered) :
                    out.entered[e] = [unit |-> unit.fname, arg |-> "base"]
    /\ \A i \in 1..Len(cfg) :
         LET addonName == removeInvalidAddonNameChars(cfg[i].key)
             m == AddonModule(addonName)
             unit == ResolveUnit(m)
         IN  FailingUnit(m, unit) =>
               /\ \A a \in 1..Len(addons) : addons[a].name # DisplayName(unit, addonName)
               /\ ~Logged("info", RegistryLoggerName, "Successfully loaded addon",
                          addonName, "")
    /\ Range(listeners) = UNION { Range(ListenerKeys(addons[a])) : a \in 1..Len(addons) }

\* The function j registered muted on the instance of the fallback and then
\* threw: it is not loaded and muted is not subscribed, while a is loaded.
C14_Witness ==
  /\ Constructed
  /\ out.threw = "none"
  /\ \E i \in 1..Len(cfg) : cfg[i].key = << "j" >>
  /\ \E e \in 1..Len(out.entered) : out.entered[e] = [unit |-> << "J" >>, arg |-> "base"]
  /\ Logged("error", RegistryLoggerName, "Error initialize addon", << "j" >>, "")
  /\ Len(addons) = 1
  /\ addons[1].name = << "A" >>
  /\ ~IndexOfHit(listeners, "muted")

\* C17: a throwing callback stops no later callback of the dispatch: every
\* callback of every loaded addon's list for the dispatched, subscribed event
\* is invoked, those after a throwing one in the same list included.
C17_ThrowStopsNoCallback ==
  (out.op \in DispatchOps /\ IsSubscribed(listeners, out.arg)) =>
    \A a \in 1..Len(addons) :
      HasList(addons[a], out.arg) =>
        \A k \in 1..Len(ListOf(addons[a], out.arg)) : Invoked(a, k)

\* C17 (as the code has it): a throwing callback ends the batch of its own
\* addon and nothing else: in a dispatch of a subscribed event, a callback of
\* a loaded addon's list is invoked exactly when no callback before it in the
\* same list throws, whatever the callbacks of the addons before it did; each
\* batch that threw is logged with its addon's name and nothing leaves the call.
C17_ThrowEndsOwnBatch ==
  (out.op \in DispatchOps /\ IsSubscribed(listeners, out.arg)) =>
    /\ out.threw = "none"
    /\ \A a \in 1..Len(addons) :
         HasList(addons[a], out.arg) =>
           LET L == ListOf(addons[a], out.arg) IN
           /\ \A k \in 1..Len(L) :
                Invoked(a, k) <=> (\A m \in 1..(k - 1) : L[m] # "throw")
           /\ (\E k \in 1..Len(L) : L[k] = "throw") =>
                Logged("error", RegistryLoggerName, "Error execute callback",
                       addons[a].name, out.arg)

\* A's second callback for newImage threw: its third was not invoked, the
\* callback of the addon loaded after A was.
C17_Witness ==
  /\ out.op \in DispatchOps
  /\ out.arg = "newImage"
  /\ Len(addons) = 2
  /\ ListOf(addons[1], "newImage") = << "ok", "throw", "ok" >>
  /\ Invoked(1, 2)
  /\ ~Invoked(1, 3)
  /\ HasList(addons[2], "newImage")
  /\ Invoked(2, 1)

\* C18: a name outside validListenEvents is inert: no callback is invoked
\* for it, neither by the inbound event source nor when the host passes it to
\* executeEventCallbacks; and no callback is invoked for a name that is not
\* in the subscription set.
C18_UnknownNamesInert ==
  out.op \in DispatchOps =>
    ( (~IndexOfHit(validListenEvents, out.arg) \/ ~IndexOfHit(listeners, out.arg)) =>
        out.invoked = << >> )

\* The names the first a loaded addons registered, in load order and, for
\* one addon, in the order of its registrations.
RECURSIVE RegisteredUpTo(_)
RegisteredUpTo(a) ==
  IF a = 0 THEN << >> ELSE RegisteredUpTo(a - 1) \o ListenerKeys(addons[a])

\* The place of the first occurrence of n in seq.
FirstPlace(seq, n) ==
  CHOOSE i \in 1..Len(seq) : seq[i] = n /\ \A j \in 1..(i - 1) : seq[j] # n

\* The unit the configuration key at place i resolves to, by its name.
KeyDisplayName(i) ==
  LET addonName == removeInvalidAddonNameChars(cfg[i].key)
  IN  DisplayName(ResolveUnit(AddonModule(addonName)), addonName)

\* C19: after the load pass the subscription set has no name twice, holds
\* exactly the names the loaded addons registered, and lists them in
\* first-registrant order (load order, then the addon's registration order);
\* the loaded list follows the order of the configuration keys.
C19_SubscriptionOrder ==
  Constructed =>
    LET all == RegisteredUpTo(Len(addons)) IN
    /\ \A i, j \in 1..Len(listeners) : listeners[i] = listeners[j] => i = j
    /\ Range(listeners) = Range(all)
    /\ \A i, j \in 1..Len(listeners) :
         i < j => FirstPlace(all, listeners[i]) < FirstPlace(all, listeners[j])
    /\ \E f \in [1..Len(addons) -> 1..Len(cfg)] :
         /\ \A a, b \in 1..Len(addons) : a < b => f[a] < f[b]
         /\ \A a \in 1..Len(addons) : addons[a].name = KeyDisplayName(f[a])

\* b registered newImage and explode, then c registered paused and newImage:
\* newImage is subscribed once, at the place b gave it.
C19_Witness ==
  /\ Constructed
  /\ out.threw = "none"
  /\ Len(addons) = 2
  /\ ListenerKeys(addons[1]) = << "newImage", "explode" >>
  /\ ListenerKeys(addons[2]) = << "paused", "newImage" >>
  /\ listeners = << "newImage", "explode", "paused" >>

\* The times the body of the unit was entered during the call.
EntriesOf(unit) == { e \in 1..Len(out.entered) : out.entered[e].unit = unit.fname }

\* C20: the function-style fallback follows the class-style attempt exactly
\* when that attempt failed with a TypeError (a function-style unit is then
\* entered with an AddonBase instance); when the attempt failed with another
\* error the unit is not entered again, the addon is not loaded and the
\* error is logged with the addon's name.
C20_FallbackIffTypeError ==
  Constructed =>
    \A i \in 1..Len(out.attempts) :
      LET t == out.attempts[i]
          unit == ResolveUnit(AddonModule(t.addon))
      IN  /\ t.fell <=> t.err = "TypeError"
          /\ (t.err = "TypeError" /\ unit.kind \in { "function", "arrow" }) =>
               \E e \in EntriesOf(unit) : out.entered[e].arg = "base"
          /\ t.err \notin { "none", "TypeError" } =>
               /\ Cardinality(EntriesOf(unit)) = 1
               /\ \A a \in 1..Len(addons) : addons[a].name # unit.fname
               /\ Logged("error", RegistryLoggerName, "Error initialize addon", t.addon, "")
               /\ ~Logged("info", RegistryLoggerName, "Successfully loaded addon",
                          t.addon, "")

\* The function k threw an Error under new and was entered once, not loaded;
\* the function b met a TypeError under new, was entered again and loaded.
C20_Witness ==
  /\ Constructed
  /\ out.attempts = << [addon |-> << "k" >>, err |-> "Error", fell |-> FALSE],
                       [addon |-> << "b" >>, err |-> "TypeError", fell |-> TRUE] >>
  /\ out.entered = << [unit |-> << "K" >>, arg |-> "config"],
                      [unit |-> << "B" >>, arg |-> "config"],
                      [unit |-> << "B" >>, arg |-> "base"] >>
  /\ Len(addons) = 1
  /\ addons[1].name = << "B" >>

\* The side effects the call recorded for the instance name.
EffectsOf(name) == { e \in 1..Len(out.effects) : out.effects[e] = name }

\* C21: for every function-style addon that ends up loaded, the body of the
\* exported function is entered exactly once during the load pass, with the
\* AddonBase instance as its argument and never with the raw configuration
\* object; so each side effect of the body happens once.
C21_FunctionEnteredOnce ==
  Constructed =>
    \A i \in 1..Len(cfg) :
      LET addonName == removeInvalidAddonNameChars(cfg[i].key)
          unit == ResolveUnit(AddonModule(addonName))
      IN  ( /\ unit.kind \in { "function", "arrow" }
            /\ Logged("info", RegistryLoggerName, "Successfully loaded addon",
                      addonName, "") ) =>
            /\ Cardinality(EntriesOf(unit)) = 1
            /\ \A e \in EntriesOf(unit) : out.entered[e].arg = "base"
            /\ Cardinality(EffectsOf(DisplayName(unit, addonName)))
                 = Cardinality({ k \in 1..Len(unit.body) : unit.body[k].op = "effect" })

\* C22: in every state, also after a loaded addon called registerListener
\* at run time, every event name for which a loaded addon holds a non-empty
\* callback list is in the subscription set, and executeEventCallbacks for
\* that name invokes the callbacks of the list.
C22_RuntimeRegistrationSubscribed ==
  /\ \A a \in 1..Len(addons) :
       \A i \in 1..Len(addons[a].listeners) :
         addons[a].listeners[i].cbs # << >> =>
           IndexOfHit(listeners, addons[a].listeners[i].ev)
  /\ out.op = "dispatch" =>
       \A a \in 1..Len(addons) :
         (HasList(addons[a], out.arg) /\ ListOf(addons[a], out.arg) # << >>) =>
           Invoked(a, 1)

\* C23: the module-level reference is set only by a construction that ran
\* to completion: after a construction that raised while loading, the
\* reference is unset, and a call of initAddonInterface or of the constructor
\* is rejected as a second instance only when a registry was returned before.
C23_SingletonOnlyWhenComplete ==
  /\ (Constructed /\ out.threw # "none") => addonInterfaceObj = "null"
  /\ addonInterfaceObj = "set" => hostHas
  /\ (out.op \in ConstructOps /\ out.threw = "AddonError") => hostHas

(***************************************************************************)
(* Further properties of the command surface (specification CtlSpec).      *)
(***************************************************************************)
\* C13: the status command, with or without an addon name, prints every
\* declared addon with its flag (true unless enabled is explicitly false) and
\* returns normally: no exception, no exit, the configuration in memory and
\* on disk as before, no call of the write operation.
C13_StatusReadOnly ==
  \A k \in 1..Len(ctlHist) :
    LET h == ctlHist[k] IN
    h.cmd = "status" =>
      /\ h.threw = "none"
      /\ ~h.exited
      /\ h.table = [i \in 1..Len(h.before) |->
                      [name |-> h.before[i].key,
                       enabled |-> h.before[i].val.enabled # "false"]]
      /\ h.after = h.before
      /\ h.persistedAfter = h.persistedBefore
      /\ h.wrote = 0

\* Two calls with the same command and the same arguments.
SameCall(d, e) ==
  /\ d.cmd = e.cmd
  /\ d.hasName = e.hasName
  /\ d.name = e.name
  /\ d.args = e.args
  /\ d.ctrl = e.ctrl

\* C15: enable, disable, remove and config with the default key/value
\* handler are idempotent: a second run with the same arguments, right after
\* the first, leaves the configuration in memory and on disk as the first
\* left them, and for enable, disable and remove it calls no write.
C15_Idempotent ==
  \A k \in 1..(Len(ctlHist) - 1) :
    LET d == ctlHist[k]
        e == ctlHist[k + 1]
    IN  ( /\ d.cmd \in { "enable", "disable", "remove", "config" }
          /\ SameCall(d, e)
          /\ d.cmd = "config" => ~HasConfigCtrl(d.ctrl) ) =>
          /\ e.after = d.after
          /\ e.persistedAfter = d.persistedAfter
          /\ d.cmd # "config" => e.wrote = 0

\* disable ran twice on an enabled addon: the first run changed and wrote
\* the configuration, the second changed and wrote nothing.
C15_Witness ==
  /\ Len(ctlHist) = 2
  /\ ctlHist[1].cmd = "disable" /\ ctlHist[2].cmd = "disable"
  /\ SameCall(ctlHist[1], ctlHist[2])
  /\ ctlHist[1].after # ctlHist[1].before
  /\ ctlHist[1].wrote = 1
  /\ ctlHist[1].persistedAfter = ctlHist[1].after
  /\ ctlHist[2].console = << "Nothing to do. Already disabled or not installed" >>
  /\ ctlHist[2].wrote = 0
  /\ ctlConfig = ctlHist[1].after

\* The call reached the write operation and the write failed.
WriteFailed(h) == h.wrote > 0 /\ ~writeOk

\* The line the command's catch block prints.
CatchLine(cmd) ==
  CASE cmd = "enable"  -> "Error enable addon"
    [] cmd = "disable" -> "Error updating config to enable addon"
    [] cmd = "remove"  -> "Error updating config to remove addon"
    [] OTHER           -> "Error updating config"

\* The change the command made in memory is in the configuration it left.
MutationKept(h) ==
  LET t == Target(h) IN
  CASE h.cmd = "enable" ->
         /\ ~CtlHas(h.before, t)
         /\ CtlHas(h.after, t) /\ CtlGet(h.after, t).enabled = "true"
    [] h.cmd = "disable" ->
         /\ CtlGet(h.before, t).enabled # "false"
         /\ CtlGet(h.after, t).enabled = "false"
    [] h.cmd = "remove" ->
         CtlHas(h.before, t) /\ ~CtlHas(h.after, t)
    [] OTHER ->
         IF h.ctrl = "idleTrue" THEN h.after = h.before
         ELSE CtlField(CtlGet(h.after, t), h.args[1]) = StringValue(h.args[2])

\* C16: when the write operation fails during enable, disable, remove or
\* config, the failure is caught and reported on the console, no exception
\* leaves addonControl, the process does not exit, and the mutation the
\* command made in memory stays while the persisted configuration is as before.
C16_WriteFailureCaught ==
  \A k \in 1..Len(ctlHist) :
    LET h == ctlHist[k] IN
    (h.cmd \in { "enable", "disable", "remove", "config" } /\ WriteFailed(h)) =>
      /\ h.threw = "none"
      /\ ~h.exited
      /\ h.wrote = 1
      /\ h.console # << >> /\ h.console[Len(h.console)] = CatchLine(h.cmd)
      /\ MutationKept(h)
      /\ h.persistedAfter = h.persistedBefore

\* remove met a failing write: the entry is gone in memory, still persisted,
\* and the error was reported.  The same for config through the default handler.
C16_Witness ==
  /\ ~writeOk
  /\ Len(ctlHist) = 2
  /\ ctlHist[1].cmd = "config" /\ ctlHist[1].ctrl = "none" /\ ctlHist[1].wrote = 1
  /\ ctlHist[1].after # ctlHist[1].before
  /\ ctlHist[2].cmd = "remove" /\ ctlHist[2].wrote = 1
  /\ ctlHist[2].console = << "Error updating config to remove addon" >>
  /\ ~CtlHas(ctlConfig, CtlX)
  /\ CtlHas(persisted, CtlX)
  /\ ctlHist[2].threw = "none"
=============================================================================
